---- MODULE Spec2Model ----
(***************************************************************************)
(* immutable_string: the process-wide intern table (STRING_TABLE, a        *)
(* RwLock around a WeakHashSet of Weak<str>) and the handle type           *)
(* ImmutableString(Arc<str>) of src/lib.rs.                                *)
(*                                                                         *)
(* A buffer (the ArcInner of an Arc<str>) is a slot of arcs, with its       *)
(* content and its strong and weak counts. A slot is free once both counts *)
(* are zero, and the allocator may then hand it out again.                 *)
(* Every atomic event of the code is one action: a lock acquisition or     *)
(* release, a Weak::upgrade, an Arc clone or drop, the table insertion.    *)
(***************************************************************************)
EXTENDS Naturals, Sequences, FiniteSets, Bags, TLC

\* ------------------------------------------------------------------ bounds
NThreads == 2
MaxBufs  == 2
MaxHeld  == 3

Threads == 1..NThreads

\* The contents the callers intern: one character repeated, in two lengths
\* (as in tests::iter_collect).
Texts == { <<"a">>, <<"a", "a">> }

NoBuf == 0

VARIABLES
    STRING_TABLE,   \* the WeakHashSet: the buffers it holds a Weak<str> to
    readers,        \* threads holding a read guard of the RwLock
    writer,         \* set of threads holding the write guard (at most one)
    poisoned,       \* the RwLock's poison flag
    arcs,           \* the buffer slots: [data, strong, weak]
    pc,             \* each thread's position in from()
    s,              \* each thread's argument `s` of from(), as the str it derefs to
    arg,            \* (history) the text or char sequence the caller passed
    seq,            \* (history) whether the call came through from_iter
    val,            \* each thread's local `val`
    held            \* the handles callers hold, a bag of [buf, seq, text]; a
                    \* handle is Send and Sync: any thread may clone or drop it

vars == <<STRING_TABLE, readers, writer, poisoned, arcs, pc, s, arg, seq, val, held>>

\* ------------------------------------------------------- pure conversions
Max(a, b) == IF a >= b THEN a ELSE b

\* String::new(): no allocation.
StringNew == [vec |-> <<>>, cap |-> 0]

\* String::push: grows the allocation (amortised doubling) when it is full.
Push(st, c) ==
    [vec |-> Append(st.vec, c),
     cap |-> IF Len(st.vec) = st.cap THEN Max(2 * st.cap, Len(st.vec) + 1)
             ELSE st.cap]

\* buffer.extend(iter): push every char the iterator yields, in order.
RECURSIVE Extend(_, _)
Extend(st, iter) ==
    IF iter = <<>> THEN st ELSE Extend(Push(st, Head(iter)), Tail(iter))

\* Mutant of ShrinkToFit: the content is cut with the capacity, one char short.
ShrinkToFitCuts(st) ==
    [vec |-> SubSeq(st.vec, 1, Len(st.vec) - 1), cap |-> Len(st.vec) - 1]

\* buffer.shrink_to_fit(): drop the excess capacity, keep the content.
ShrinkToFit(st) == [st EXCEPT !.cap = Len(st.vec)]

\* Deref<Target = str> of a String: its initialised part.
DerefString(st) == SubSeq(st.vec, 1, Len(st.vec))

\* An iterator over &char yields the chars its references point to.
Cloned(refs) == [i \in DOMAIN refs |-> refs[i]]

\* from_iter: String::new, extend, shrink_to_fit; the result is handed to from().
from_iter(iter) == DerefString(ShrinkToFit(Extend(StringNew, iter)))

\* Mutant of Into: the copy stops one char early.
IntoCutsLast(str) == SubSeq(str, 1, Len(str) - 1)

\* s.into(): Arc<str> from the argument, a copy of its bytes in order.
RECURSIVE Into(_)
Into(str) == IF str = <<>> THEN <<>> ELSE <<Head(str)>> \o Into(Tail(str))

\* --------------------------------------------------------------- handles
Handle(b, q, text) == [buf |-> b, seq |-> q, text |-> text]

\* Deref of a handle: the content of its buffer.
Deref(h) == arcs[h.buf].data

\* use_count(): Arc::strong_count of the handle's buffer.
use_count(h) == arcs[h.buf].strong

\* Mutant of Eq: only the first char of the contents is compared.
EqFirstChar(h1, h2) == Head(arcs[h1.buf].data) = Head(arcs[h2.buf].data)

\* Derived PartialEq: Arc<str> equality, pointer identity or equal content.
Eq(h1, h2) == h1.buf = h2.buf \/ Deref(h1) = Deref(h2)

\* -------------------------------------------------------------- the table
\* Mutant of LiveMatches: an expired entry still matches.
LiveMatchesExpired(str) == { b \in STRING_TABLE : arcs[b].data = str }

\* str_map.get(&s): the entries whose hash and content match s and whose
\* Weak::upgrade succeeds (strong count not zero).
LiveMatches(str) ==
    { b \in STRING_TABLE : arcs[b].strong > 0 /\ arcs[b].data = str }

\* Entries whose buffer is gone: the set may drop any of them when it inserts.
Expired == { b \in STRING_TABLE : arcs[b].strong = 0 }

\* A slot that holds no allocation.
Freed == [data |-> <<>>, strong |-> 0, weak |-> 0]

Bufs == 1..MaxBufs

\* The slots that hold an allocation: a strong or a weak reference is left.
Used == { b \in Bufs : arcs[b] # Freed }

\* The allocation is released when its last reference, strong or weak, goes.
Release(a) == IF a.strong = 0 /\ a.weak = 0 THEN Freed ELSE a

\* Arc::clone and a successful Weak::upgrade: one more strong reference.
IncStrong(b) == [arcs EXCEPT ![b].strong = arcs[b].strong + 1]

\* Drop of an Arc: one strong reference fewer.
DecStrong(b) ==
    [arcs EXCEPT ![b] = Release([arcs[b] EXCEPT !.strong = arcs[b].strong - 1])]

\* ------------------------------------------------------------------- Init
Init ==
    /\ STRING_TABLE = {}
    /\ readers = {}
    /\ writer = {}
    /\ poisoned = FALSE
    /\ arcs = [b \in Bufs |-> Freed]
    /\ pc = [t \in Threads |-> "idle"]
    /\ s = [t \in Threads |-> <<>>]
    /\ arg = [t \in Threads |-> <<>>]
    /\ seq = [t \in Threads |-> FALSE]
    /\ val = [t \in Threads |-> NoBuf]
    /\ held = EmptyBag

\* Threads whose call may still allocate a buffer.
Pending ==
    { t \in Threads :
        pc[t] \in {"read", "get", "drop_read", "write", "recheck", "into"} }

\* Threads inside from().
InCall == { t \in Threads : pc[t] \notin {"idle", "panicked"} }

\* The bounds leave room for one more handle.
Room == BagCardinality(held) + Cardinality(InCall) < MaxHeld

\* A caller may start a call while the bounds leave room for its result.
CanCall(t) ==
    /\ pc[t] = "idle"
    /\ Room
    /\ Cardinality(Used) + Cardinality(Pending) < MaxBufs

\* ImmutableString::from(&str): from() is entered with the text itself; the
\* next step is STRING_TABLE.read().
FromStr(t) ==
    /\ CanCall(t)
    /\ \E text \in Texts :
         /\ s' = [s EXCEPT ![t] = text]
         /\ arg' = [arg EXCEPT ![t] = text]
    /\ seq' = [seq EXCEPT ![t] = FALSE]
    /\ pc' = [pc EXCEPT ![t] = "read"]
    /\ UNCHANGED <<STRING_TABLE, readers, writer, poisoned, arcs, val, held>>

\* ImmutableString::from(String): the String may carry excess capacity.
FromString(t) ==
    /\ CanCall(t)
    /\ \E text \in Texts, extra \in 0..1 :
         /\ s' = [s EXCEPT
                    ![t] = DerefString([vec |-> text, cap |-> Len(text) + extra])]
         /\ arg' = [arg EXCEPT ![t] = text]
    /\ seq' = [seq EXCEPT ![t] = FALSE]
    /\ pc' = [pc EXCEPT ![t] = "read"]
    /\ UNCHANGED <<STRING_TABLE, readers, writer, poisoned, arcs, val, held>>

\* iter.collect() over char: from_iter, then buffer.into() enters from().
FromIter(t) ==
    /\ CanCall(t)
    /\ \E text \in Texts :
         /\ s' = [s EXCEPT ![t] = from_iter(text)]
         /\ arg' = [arg EXCEPT ![t] = text]
    /\ seq' = [seq EXCEPT ![t] = TRUE]
    /\ pc' = [pc EXCEPT ![t] = "read"]
    /\ UNCHANGED <<STRING_TABLE, readers, writer, poisoned, arcs, val, held>>

\* iter.collect() over &char
FromIterRef(t) ==
    /\ CanCall(t)
    /\ \E text \in Texts :
         /\ s' = [s EXCEPT ![t] = from_iter(Cloned(text))]
         /\ arg' = [arg EXCEPT ![t] = text]
    /\ seq' = [seq EXCEPT ![t] = TRUE]
    /\ pc' = [pc EXCEPT ![t] = "read"]
    /\ UNCHANGED <<STRING_TABLE, readers, writer, poisoned, arcs, val, held>>

\* The thread leaves from() with handle h; its locals are gone.
Return(t, h) ==
    /\ held' = held (+) SetToBag({h})
    /\ pc' = [pc EXCEPT ![t] = "idle"]
    /\ val' = [val EXCEPT ![t] = NoBuf]
    /\ s' = [s EXCEPT ![t] = <<>>]
    /\ arg' = [arg EXCEPT ![t] = <<>>]
    /\ seq' = [seq EXCEPT ![t] = FALSE]

\* expect("Corrupted STRING_TABLE") on a poisoned lock: the thread unwinds.
Panic(t) ==
    /\ pc' = [pc EXCEPT ![t] = "panicked"]
    /\ UNCHANGED <<STRING_TABLE, readers, writer, poisoned, arcs, s, arg, seq, val, held>>

\* line 76: STRING_TABLE.read() is granted while no writer holds the lock.
AcquireRead(t) ==
    /\ pc[t] = "read"
    /\ writer = {}
    /\ ~poisoned
    /\ readers' = readers \cup {t}
    /\ pc' = [pc EXCEPT ![t] = "get"]
    /\ UNCHANGED <<STRING_TABLE, writer, poisoned, arcs, s, arg, seq, val, held>>

\* Mutant of ReadPoisoned: the poison is ignored (into_inner) and the guard used.
ReadPoisonedRecovers(t) ==
    /\ pc[t] = "read"
    /\ writer = {}
    /\ poisoned
    /\ readers' = readers \cup {t}
    /\ pc' = [pc EXCEPT ![t] = "get"]
    /\ UNCHANGED <<STRING_TABLE, writer, poisoned, arcs, s, arg, seq, val, held>>

\* line 76: read() returns Err on a poisoned lock and expect() panics.
ReadPoisoned(t) ==
    /\ pc[t] = "read"
    /\ writer = {}
    /\ poisoned
    /\ Panic(t)

\* Mutant of GetHit: the upgraded Arc is cloned into the handle and the
\* original is leaked.
GetHitLeaks(t) ==
    /\ pc[t] = "get"
    /\ \E b \in LiveMatches(s[t]) :
         /\ arcs' = [arcs EXCEPT ![b].strong = arcs[b].strong + 2]
         /\ val' = [val EXCEPT ![t] = b]
    /\ pc' = [pc EXCEPT ![t] = "hit"]
    /\ UNCHANGED <<STRING_TABLE, readers, writer, poisoned, s, arg, seq, held>>

\* Mutant of GetHit: the entry is returned without checking that its
\* Weak can still be upgraded.
GetHitStale(t) ==
    /\ pc[t] = "get"
    /\ \E b \in { x \in STRING_TABLE : arcs[x].data = s[t] } :
         /\ arcs' = IncStrong(b)
         /\ val' = [val EXCEPT ![t] = b]
    /\ pc' = [pc EXCEPT ![t] = "hit"]
    /\ UNCHANGED <<STRING_TABLE, readers, writer, poisoned, s, arg, seq, held>>

\* line 77, Some: get() upgraded the entry's Weak to a new strong reference.
GetHit(t) ==
    /\ pc[t] = "get"
    /\ \E b \in LiveMatches(s[t]) :
         /\ arcs' = IncStrong(b)
         /\ val' = [val EXCEPT ![t] = b]
    /\ pc' = [pc EXCEPT ![t] = "hit"]
    /\ UNCHANGED <<STRING_TABLE, readers, writer, poisoned, s, arg, seq, held>>

\* line 77, None: no entry for s can be upgraded.
\* Mutant of GetMiss: the lookup misses whatever the table holds.
GetMissSpurious(t) ==
    /\ pc[t] = "get"
    /\ pc' = [pc EXCEPT ![t] = "drop_read"]
    /\ UNCHANGED <<STRING_TABLE, readers, writer, poisoned, arcs, s, arg, seq, val, held>>

GetMiss(t) ==
    /\ pc[t] = "get"
    /\ LiveMatches(s[t]) = {}
    /\ pc' = [pc EXCEPT ![t] = "drop_read"]
    /\ UNCHANGED <<STRING_TABLE, readers, writer, poisoned, arcs, s, arg, seq, val, held>>

\* line 78: ImmutableString(val) is returned and the read guard dropped.
ReturnHit(t) ==
    /\ pc[t] = "hit"
    /\ Return(t, Handle(val[t], seq[t], arg[t]))
    /\ readers' = readers \ {t}
    /\ UNCHANGED <<STRING_TABLE, writer, poisoned, arcs>>

\* Mutant of DropRead: the read guard is kept while the write lock is requested.
DropReadKeepsGuard(t) ==
    /\ pc[t] = "drop_read"
    /\ pc' = [pc EXCEPT ![t] = "write"]
    /\ UNCHANGED <<STRING_TABLE, readers, writer, poisoned, arcs, s, arg, seq, val, held>>

\* line 80: drop(str_map)
DropRead(t) ==
    /\ pc[t] = "drop_read"
    /\ readers' = readers \ {t}
    /\ pc' = [pc EXCEPT ![t] = "write"]
    /\ UNCHANGED <<STRING_TABLE, writer, poisoned, arcs, s, arg, seq, val, held>>

\* Mutant of AcquireWrite: the write lock is granted while readers hold the lock.
AcquireWriteOverReaders(t) ==
    /\ pc[t] = "write"
    /\ writer = {}
    /\ ~poisoned
    /\ writer' = {t}
    /\ pc' = [pc EXCEPT ![t] = "recheck"]
    /\ UNCHANGED <<STRING_TABLE, readers, poisoned, arcs, s, arg, seq, val, held>>

\* line 81: STRING_TABLE.write() is granted while nobody holds the lock.
AcquireWrite(t) ==
    /\ pc[t] = "write"
    /\ readers = {}
    /\ writer = {}
    /\ ~poisoned
    /\ writer' = {t}
    /\ pc' = [pc EXCEPT ![t] = "recheck"]
    /\ UNCHANGED <<STRING_TABLE, readers, poisoned, arcs, s, arg, seq, val, held>>

\* line 81: write() returns Err on a poisoned lock and expect() panics.
WritePoisoned(t) ==
    /\ pc[t] = "write"
    /\ readers = {}
    /\ writer = {}
    /\ poisoned
    /\ Panic(t)

\* line 84, Some: the entry was inserted since the read guard was dropped.
RecheckHit(t) ==
    /\ pc[t] = "recheck"
    /\ \E b \in LiveMatches(s[t]) :
         /\ arcs' = IncStrong(b)
         /\ val' = [val EXCEPT ![t] = b]
    /\ pc' = [pc EXCEPT ![t] = "hit2"]
    /\ UNCHANGED <<STRING_TABLE, readers, writer, poisoned, s, arg, seq, held>>

\* Mutant of RecheckMiss: no second lookup under the write guard.
RecheckSkipped(t) ==
    /\ pc[t] = "recheck"
    /\ pc' = [pc EXCEPT ![t] = "into"]
    /\ UNCHANGED <<STRING_TABLE, readers, writer, poisoned, arcs, s, arg, seq, val, held>>

\* line 84, None
RecheckMiss(t) ==
    /\ pc[t] = "recheck"
    /\ LiveMatches(s[t]) = {}
    /\ pc' = [pc EXCEPT ![t] = "into"]
    /\ UNCHANGED <<STRING_TABLE, readers, writer, poisoned, arcs, s, arg, seq, val, held>>

\* Mutant of ReturnRecheck: the write guard outlives the return.
ReturnRecheckKeepsGuard(t) ==
    /\ pc[t] = "hit2"
    /\ Return(t, Handle(val[t], seq[t], arg[t]))
    /\ UNCHANGED <<STRING_TABLE, readers, writer, poisoned, arcs>>

\* line 85: ImmutableString(val) is returned and the write guard dropped.
ReturnRecheck(t) ==
    /\ pc[t] = "hit2"
    /\ Return(t, Handle(val[t], seq[t], arg[t]))
    /\ writer' = writer \ {t}
    /\ UNCHANGED <<STRING_TABLE, readers, poisoned, arcs>>

\* line 87: let val: Arc<str> = s.into(), a new buffer with one strong
\* reference, in the first free slot.
IntoArc(t) ==
    /\ pc[t] = "into"
    /\ \E b \in Bufs \ Used :
         /\ \A x \in Bufs \ Used : b <= x
         /\ arcs' = [arcs EXCEPT ![b] = [data |-> Into(s[t]), strong |-> 1, weak |-> 0]]
         /\ val' = [val EXCEPT ![t] = b]
    /\ pc' = [pc EXCEPT ![t] = "clone"]
    /\ UNCHANGED <<STRING_TABLE, readers, writer, poisoned, s, arg, seq, held>>

\* line 88: val.clone(), the strong reference handed to insert().
CloneVal(t) ==
    /\ pc[t] = "clone"
    /\ arcs' = IncStrong(val[t])
    /\ pc' = [pc EXCEPT ![t] = "insert"]
    /\ UNCHANGED <<STRING_TABLE, readers, writer, poisoned, s, arg, seq, val, held>>

\* Mutant of Insert: the strong reference handed to insert() is never dropped.
InsertLeaksKey(t) ==
    /\ pc[t] = "insert"
    /\ STRING_TABLE' = STRING_TABLE \cup {val[t]}
    /\ arcs' = [arcs EXCEPT ![val[t]].weak = 1]
    /\ pc' = [pc EXCEPT ![t] = "fresh"]
    /\ UNCHANGED <<readers, writer, poisoned, s, arg, seq, val, held>>

\* Mutant of Insert: the new buffer is never registered in the table.
InsertForgets(t) ==
    /\ pc[t] = "insert"
    /\ arcs' = DecStrong(val[t])
    /\ pc' = [pc EXCEPT ![t] = "fresh"]
    /\ UNCHANGED <<STRING_TABLE, readers, writer, poisoned, s, arg, seq, val, held>>

\* line 88: str_map.insert(..) stores a Weak of its argument, may drop expired
\* entries it meets (their Weak with them), and drops the strong reference
\* it was given.
Insert(t) ==
    /\ pc[t] = "insert"
    /\ \E gone \in SUBSET Expired :
         /\ STRING_TABLE' = (STRING_TABLE \ gone) \cup {val[t]}
         /\ arcs' = [b \in Bufs |->
                       IF b \in gone
                           THEN Release([arcs[b] EXCEPT !.weak = 0])
                       ELSE IF b = val[t]
                           THEN [arcs[b] EXCEPT !.weak = 1,
                                                !.strong = arcs[b].strong - 1]
                       ELSE arcs[b]]
    /\ pc' = [pc EXCEPT ![t] = "fresh"]
    /\ UNCHANGED <<readers, writer, poisoned, s, arg, seq, val, held>>

\* line 89: ImmutableString(val) is returned and the write guard dropped.
ReturnFresh(t) ==
    /\ pc[t] = "fresh"
    /\ Return(t, Handle(val[t], seq[t], arg[t]))
    /\ writer' = writer \ {t}
    /\ UNCHANGED <<STRING_TABLE, readers, poisoned, arcs>>

\* line 87: the caller's Into<Arc<str>> unwinds; the write guard is dropped
\* during the unwinding, which poisons the lock.
IntoPanics(t) ==
    /\ pc[t] = "into"
    /\ writer' = writer \ {t}
    /\ poisoned' = TRUE
    /\ pc' = [pc EXCEPT ![t] = "panicked"]
    /\ UNCHANGED <<STRING_TABLE, readers, arcs, s, arg, seq, val, held>>

\* Derived Clone: Arc::clone of a handle.
Clone(t) ==
    /\ pc[t] = "idle"
    /\ Room
    /\ \E h \in BagToSet(held) :
         /\ arcs' = IncStrong(h.buf)
         /\ held' = held (+) SetToBag({h})
    /\ UNCHANGED <<STRING_TABLE, readers, writer, poisoned, pc, s, arg, seq, val>>

\* Mutant of Drop: dropping the last handle also removes the entry of the
\* buffer from the table.
DropPurges(t) ==
    /\ pc[t] = "idle"
    /\ \E h \in BagToSet(held) :
         /\ held' = held (-) SetToBag({h})
         /\ IF arcs[h.buf].strong = 1
            THEN /\ STRING_TABLE' = STRING_TABLE \ {h.buf}
                 /\ arcs' = [arcs EXCEPT ![h.buf] = Freed]
            ELSE /\ STRING_TABLE' = STRING_TABLE
                 /\ arcs' = DecStrong(h.buf)
    /\ UNCHANGED <<readers, writer, poisoned, pc, s, arg, seq, val>>

\* Drop of a handle.
Drop(t) ==
    /\ pc[t] = "idle"
    /\ \E h \in BagToSet(held) :
         /\ arcs' = DecStrong(h.buf)
         /\ held' = held (-) SetToBag({h})
    /\ UNCHANGED <<STRING_TABLE, readers, writer, poisoned, pc, s, arg, seq, val>>

\* One step of a call of from() in normal operation.
Step(t) ==
    \/ AcquireRead(t)
    \/ GetHit(t)
    \/ GetMiss(t)
    \/ ReturnHit(t)
    \/ DropRead(t)
    \/ AcquireWrite(t)
    \/ RecheckHit(t)
    \/ RecheckMiss(t)
    \/ ReturnRecheck(t)
    \/ IntoArc(t)
    \/ CloneVal(t)
    \/ Insert(t)
    \/ ReturnFresh(t)

Caller(t) ==
    \/ FromStr(t)
    \/ FromString(t)
    \/ FromIter(t)
    \/ FromIterRef(t)
    \/ Clone(t)
    \/ Drop(t)

Fault(t) ==
    \/ IntoPanics(t)
    \/ ReadPoisoned(t)
    \/ WritePoisoned(t)

\* fmt::Write::write_str: the chars of str appended to the output, in order.
RECURSIVE WriteStr(_, _)
WriteStr(out, str) ==
    IF str = <<>> THEN out ELSE WriteStr(Append(out, Head(str)), Tail(str))

\* Display::fmt of a handle: the str it dereferences to, written out.
Display(h) == WriteStr(<<>>, Deref(h))

Next == \E t \in Threads : Caller(t) \/ Step(t) \/ Fault(t)

\* Every behaviour of the program, a panicking conversion included.
Spec == Init /\ [][Next]_vars

\* A fair RwLock does not let readers overtake a thread that waits for the
\* write lock: read() is granted only while no thread waits in write().
FairAcquireRead(t) ==
    /\ \A w \in Threads : pc[w] # "write"
    /\ AcquireRead(t)

FairStep(t) ==
    \/ FairAcquireRead(t)
    \/ GetHit(t)
    \/ GetMiss(t)
    \/ ReturnHit(t)
    \/ DropRead(t)
    \/ AcquireWrite(t)
    \/ RecheckHit(t)
    \/ RecheckMiss(t)
    \/ ReturnRecheck(t)
    \/ IntoArc(t)
    \/ CloneVal(t)
    \/ Insert(t)
    \/ ReturnFresh(t)

NextFair == \E t \in Threads : Caller(t) \/ FairStep(t)

\* Normal operation under a fair lock: a thread inside from() keeps running,
\* and a thread that waits for the lock is granted it if the lock can be
\* granted to it again and again (strong fairness; for the steps that do not
\* wait it is weak fairness, as nothing disables them).
SpecFair ==
    /\ Init
    /\ [][NextFair]_vars
    /\ \A t \in Threads : SF_vars(FairStep(t))

\* ------------------------------------------------- vocabulary of the claims
\* Buffers with at least one strong reference.
Live == { b \in Bufs : arcs[b].strong > 0 }

\* The handles callers hold.
AllHeld == BagToSet(held)

\* Threads whose call holds the Arc `val` it is about to return.
Returning == { t \in Threads : val[t] # NoBuf }

\* Number of handles among hs, counted with their copies, on content c.
RECURSIVE HeldOn(_, _)
HeldOn(hs, c) ==
    IF hs = {} THEN 0
    ELSE LET h == CHOOSE h \in hs : TRUE
         IN  (IF Deref(h) = c THEN CopiesIn(h, held) ELSE 0)
             + HeldOn(hs \ {h}, c)

\* The live handles on content c: those callers hold, and those a call of
\* from() has obtained and is about to return.
HandleCount(c) ==
    HeldOn(AllHeld, c)
    + Cardinality({ t \in Returning : arcs[val[t]].data = c })

\* ------------------------------------------------------------------ claims

\* C1: at most one live buffer per content: in every reachable state two
\* buffers with a strong reference never have equal content, so any two live
\* handles (held by a caller, or about to be returned by from()) with equal
\* content reference the same buffer.
C1_AtMostOneLiveBuffer ==
    /\ \A b1, b2 \in Live : arcs[b1].data = arcs[b2].data => b1 = b2
    /\ \A h1, h2 \in AllHeld : Deref(h1) = Deref(h2) => h1.buf = h2.buf
    /\ \A t \in Returning : \A h \in AllHeld :
         arcs[val[t]].data = Deref(h) => val[t] = h.buf

\* Two handles on equal content are held while an earlier buffer of that
\* content is still in the table, expired.
C1_Witness ==
    \E h \in AllHeld :
        /\ HeldOn(AllHeld, Deref(h)) = 2
        /\ \E b \in Expired : arcs[b].data = Deref(h)

\* Every thread is back from interning c and the handle each got is kept:
\* as many handles as threads, all asked for with c.
AllKeep(c) ==
    /\ \A t \in Threads : pc[t] = "idle"
    /\ BagCardinality(held) = NThreads
    /\ \A h \in AllHeld : h.text = c

\* Thread t allocates in this step.
Allocates(t) == pc[t] = "into" /\ pc'[t] = "clone"

\* Thread t inserts into the table in this step.
Inserts(t) == pc[t] = "insert" /\ pc'[t] = "fresh"

\* C2: threads racing on one content converge on one buffer. A thread
\* allocates, and inserts, only while no other live buffer of the content
\* exists, so of the threads racing on an unseen content exactly one
\* allocates and inserts; and when every thread has interned the content and
\* kept its handle, all the handles reference one buffer, whose reference
\* count is the number of threads.
C2_ConcurrentRace ==
    /\ [][\A t \in Threads :
            /\ Allocates(t) =>
                 \A b \in Live : arcs[b].data # arcs'[val'[t]].data
            /\ Inserts(t) =>
                 /\ \A b \in Live \ {val[t]} : arcs[b].data # arcs[val[t]].data
                 /\ LiveMatches(arcs[val[t]].data) = {}]_vars
    /\ [](\A c \in Texts :
            AllKeep(c) =>
                \E b \in Live :
                    /\ \A h \in AllHeld : h.buf = b
                    /\ arcs[b].data = c
                    /\ arcs[b].strong = NThreads
                    /\ LiveMatches(c) = {b})

\* Every thread keeps its handle on a content for which one buffer was ever
\* allocated.
C2_Witness ==
    \E c \in Texts : AllKeep(c) /\ Cardinality(Used) = 1

\* C3: any two handles callers hold on equal content compare equal and
\* report the same use_count(), which is the number of live handles on that
\* content: the handles callers hold (from from() or clone, in any thread)
\* and the handles that calls of from() have obtained and are returning.
C3_DedupCounts ==
    \A h1, h2 \in AllHeld :
        Deref(h1) = Deref(h2) =>
            /\ Eq(h1, h2)
            /\ use_count(h1) = use_count(h2)
            /\ use_count(h1) = HandleCount(Deref(h1))

\* Two handles on one content are held and a call is returning a third.
C3_Witness ==
    \E h \in AllHeld, t \in Returning :
        /\ HeldOn(AllHeld, Deref(h)) = 2
        /\ val[t] = h.buf
        /\ use_count(h) = 3

\* C4: a content with two live handles (interned twice, both kept) reports
\* use_count() 2 on each, with three (one of them cloned) 3, and a content
\* with one live handle (interned once) reports 1.
C4_StructuralSharing ==
    \A h \in AllHeld :
        /\ HandleCount(Deref(h)) = 1 => use_count(h) = 1
        /\ HandleCount(Deref(h)) = 2 => use_count(h) = 2
        /\ HandleCount(Deref(h)) = 3 => use_count(h) = 3

\* One content was interned twice, and the other content is held once.
C4_Witness ==
    \E h \in AllHeld, g \in AllHeld :
        /\ CopiesIn(h, held) = 2
        /\ use_count(h) = 2
        /\ Deref(g) # Deref(h)
        /\ use_count(g) = 1

\* Thread t takes a step of from() (its position changes).
Moves(t) == pc'[t] # pc[t]

\* C5: once every handle on a content is dropped, a lookup of that content
\* (under the read guard or under the write guard) misses without error,
\* whatever expired entry the table still holds; the call then allocates a
\* buffer in a free slot, which no table entry refers to, with the content
\* asked for; and the handle it returns has that content and a buffer that
\* is not expired.
C5_Reclamation ==
    [][\A t \in Threads :
         /\ (pc[t] \in {"get", "recheck"} /\ Moves(t) /\ HandleCount(s[t]) = 0) =>
                /\ pc'[t] = (IF pc[t] = "get" THEN "drop_read" ELSE "into")
                /\ arcs' = arcs
         /\ Allocates(t) =>
                /\ arcs[val'[t]] = Freed
                /\ val'[t] \notin STRING_TABLE
                /\ arcs'[val'[t]] = [data |-> arg[t], strong |-> 1, weak |-> 0]
         /\ (pc[t] = "fresh" /\ Moves(t)) =>
                /\ pc'[t] = "idle"
                /\ CopiesIn(Handle(val[t], seq[t], arg[t]), held')
                     = CopiesIn(Handle(val[t], seq[t], arg[t]), held) + 1
                /\ arcs'[val[t]].data = arg[t]
                /\ arcs'[val[t]].strong >= 1
                /\ \A b \in STRING_TABLE' :
                     arcs'[b].strong = 0 => b # val[t]]_vars

\* A handle is held on a content of which the table still holds an expired
\* entry: the content was interned again after its handles were all dropped.
C5_Witness ==
    \E h \in AllHeld : \E b \in STRING_TABLE :
        /\ arcs[b].strong = 0
        /\ arcs[b].data = h.text
        /\ b # h.buf
        /\ use_count(h) = 1

\* The handles built by from_iter.
SeqHeld == { h \in AllHeld : h.seq }

\* C6: a handle built from a char sequence holds the materialised text of the
\* sequence; two such handles from sequences of equal content are equal and
\* share one buffer (use_count() 2 when they are the only two handles on it),
\* and one from a sequence of another length is unequal to them and has a
\* buffer of its own (use_count() 1 when it is alone on it).
C6_SequenceConstruction ==
    /\ \A t \in Returning : seq[t] => arcs[val[t]].data = arg[t]
    /\ \A h \in SeqHeld : Deref(h) = h.text
    /\ \A h1, h2 \in SeqHeld :
         /\ h1.text = h2.text =>
              /\ Eq(h1, h2)
              /\ h1.buf = h2.buf
              /\ HandleCount(h1.text) = 2 =>
                   use_count(h1) = 2 /\ use_count(h2) = 2
         /\ Len(h1.text) # Len(h2.text) =>
              /\ ~Eq(h1, h2)
              /\ h1.buf # h2.buf
              /\ HandleCount(h1.text) = 1 => use_count(h1) = 1

\* Two handles collected from one sequence and one from a shorter or longer
\* one, as in tests::iter_collect.
C6_Witness ==
    \E h, g \in SeqHeld :
        /\ CopiesIn(h, held) = 2
        /\ use_count(h) = 2
        /\ Len(g.text) # Len(h.text)
        /\ use_count(g) = 1

\* C7: two handles compare equal if and only if their buffers have equal
\* content, which is so if and only if they were asked for with equal
\* content, whatever constructor built each and whichever was built first.
C7_ContentOnlyEquality ==
    \A h1, h2 \in AllHeld :
        /\ Eq(h1, h2) <=> (Deref(h1) = Deref(h2))
        /\ Eq(h1, h2) <=> (h1.text = h2.text)

\* A handle built from text and one built from a sequence are equal, and a
\* third handle is unequal to both.
C7_Witness ==
    \E h1, h2, h3 \in AllHeld :
        /\ h1.seq /\ ~h2.seq
        /\ Eq(h1, h2)
        /\ ~Eq(h1, h3)

\* C8: on every return path of from() (hit under the read guard, hit on the
\* re-check, fresh allocation) the buffer about to be returned holds exactly
\* the content asked for, and a held handle renders as exactly the content
\* it was asked for with.
C8_ContentFidelity ==
    /\ \A t \in Threads :
         pc[t] \in {"hit", "hit2", "clone", "insert", "fresh"} =>
             /\ val[t] \in Live
             /\ arcs[val[t]].data = arg[t]
    /\ \A h \in AllHeld :
         /\ Display(h) = h.text
         /\ Len(Display(h)) = Len(h.text)

\* A call returns through the re-check a buffer that another call allocated
\* and whose handle is held.
C8_Witness ==
    \E t \in Threads : \E h \in AllHeld :
        /\ pc[t] = "hit2"
        /\ val[t] = h.buf
        /\ Display(h) = arg[t]

\* C9: a thread that finds the lock poisoned when it acquires it, for reading
\* or for writing, terminates in that step: it holds no guard, returns no
\* handle, allocates nothing and leaves the table as it is; and a terminated
\* thread never runs again.
C9_PoisonedIsFatal ==
    [][\A t \in Threads :
         /\ (poisoned /\ pc[t] \in {"read", "write"} /\ Moves(t)) =>
                /\ pc'[t] = "panicked"
                /\ t \notin readers' \cup writer'
                /\ held' = held
                /\ arcs' = arcs
                /\ STRING_TABLE' = STRING_TABLE
         /\ pc[t] = "panicked" => pc'[t] = "panicked"]_vars

\* The lock is poisoned and a second thread has terminated on acquiring it.
C9_Witness ==
    /\ poisoned
    /\ Cardinality({ t \in Threads : pc[t] = "panicked" }) >= 2

\* C10: in normal operation, while calls of from() are in progress one of
\* them can take a step (no deadlock, whatever the other threads intern,
\* clone or drop), and under a fair lock every call that was started returns.
C10_Progress ==
    /\ [](InCall # {} => \E t \in InCall : ENABLED FairStep(t))
    /\ \A t \in Threads : (pc[t] # "idle") ~> (pc[t] = "idle")

\* A thread waits for the write lock while another holds a read guard.
C10_Witness ==
    \E t1, t2 \in Threads :
        /\ t1 \in readers
        /\ pc[t2] = "write"

\* The entries of the table for content c, expired ones included.
EntriesOn(c) == { b \in STRING_TABLE : arcs[b].data = c }

\* C11: an entry is absent for lookups exactly when the reference count of
\* its buffer is zero: a lookup, under the read guard or the write guard,
\* hits if and only if an entry of the content has a count of at least one
\* at that moment, and the buffer it returns is such an entry, never an
\* expired one, even though the expired entry is still in the table.
C11_StaleEntriesAbsent ==
    [][\A t \in Threads :
         (pc[t] \in {"get", "recheck"} /\ Moves(t)) =>
             /\ pc'[t] \in {"hit", "hit2"} <=>
                  (\E b \in EntriesOn(s[t]) : arcs[b].strong >= 1)
             /\ pc'[t] \in {"hit", "hit2"} =>
                  /\ val'[t] \in EntriesOn(s[t])
                  /\ arcs[val'[t]].strong >= 1
                  /\ arcs'[val'[t]].strong = arcs[val'[t]].strong + 1
             /\ STRING_TABLE' = STRING_TABLE]_vars

\* A lookup under the read guard has missed while the table holds an expired
\* entry of the content: the last handle was dropped after the call started.
C11_Witness ==
    \E t \in Threads :
        /\ pc[t] = "drop_read"
        /\ \E b \in EntriesOn(s[t]) : arcs[b].strong = 0

\* Number of copies of the handles hs on buffer b.
RECURSIVE HeldOnBuf(_, _)
HeldOnBuf(hs, b) ==
    IF hs = {} THEN 0
    ELSE LET h == CHOOSE h \in hs : TRUE
         IN  (IF h.buf = b THEN CopiesIn(h, held) ELSE 0) + HeldOnBuf(hs \ {h}, b)

\* The handles that reference buffer b: held by callers or being returned.
HandlesOnBuf(b) ==
    HeldOnBuf(AllHeld, b) + Cardinality({ t \in Returning : val[t] = b })

\* C12: the table never owns a buffer: a buffer has a strong reference if and
\* only if some handle references it, so once its last handle is dropped it
\* is destroyed (count zero), whether or not the table still has its entry,
\* which holds one weak reference and no strong one.
C12_TableNeverOwns ==
    \A b \in Bufs :
        /\ arcs[b].strong > 0 <=> HandlesOnBuf(b) > 0
        /\ arcs[b].weak = (IF b \in STRING_TABLE THEN 1 ELSE 0)
        /\ (b \in STRING_TABLE /\ HandlesOnBuf(b) = 0) => arcs[b].strong = 0

\* The table holds the entry of a destroyed buffer while the other buffer is
\* referenced by a handle.
C12_Witness ==
    \E b1, b2 \in Bufs :
        /\ b1 \in STRING_TABLE
        /\ arcs[b1].strong = 0
        /\ HeldOnBuf(AllHeld, b2) > 0

\* C13: the entries of the table change only in a step of the thread that
\* holds the write guard, while no thread holds a read guard and no other
\* thread the write guard; a lookup never changes them.
C13_MutationUnderWriteLock ==
    /\ [][(STRING_TABLE' # STRING_TABLE) =>
            \E t \in Threads :
                /\ writer = {t}
                /\ readers = {}
                /\ pc[t] = "insert"
                /\ pc'[t] = "fresh"]_vars
    /\ [][\A t \in Threads :
            (pc[t] \in {"get", "recheck"} /\ Moves(t)) =>
                /\ STRING_TABLE' = STRING_TABLE
                /\ \A b \in Bufs : arcs'[b].weak = arcs[b].weak]_vars
    /\ [](writer # {} => readers = {} /\ Cardinality(writer) = 1)

\* A thread has inserted under the write guard while another waits for the lock.
C13_Witness ==
    \E t1, t2 \in Threads :
        /\ pc[t1] = "fresh"
        /\ writer = {t1}
        /\ val[t1] \in STRING_TABLE
        /\ pc[t2] \in {"read", "write"}

\* The positions of from() past the release of the read guard (lines 81-89).
WritePath == {"write", "recheck", "hit2", "into", "clone", "insert", "fresh"}

\* C14: a thread that missed under the read guard has released it before it
\* requests the write guard: no thread holds a read guard while it waits
\* for, or holds, the write guard.
C14_LockEscalationOrder ==
    \A t \in Threads :
        /\ pc[t] \in WritePath => t \notin readers
        /\ t \in writer => t \notin readers
        /\ t \in readers => pc[t] \in {"get", "hit", "drop_read"}

\* A thread waits for the write guard, holding no read guard, while another
\* thread holds the write guard.
C14_Witness ==
    \E t1, t2 \in Threads :
        /\ pc[t1] = "write"
        /\ t1 \notin readers
        /\ writer = {t2}

\* C15: when the lookup repeated under the write guard finds a live entry of
\* the content (inserted by another thread since the miss under the read
\* guard), the call takes a strong reference to that buffer and returns a
\* handle on it; it allocates nothing and inserts nothing.
C15_MandatoryRecheck ==
    /\ [][\A t \in Threads :
            (pc[t] = "recheck" /\ Moves(t) /\ LiveMatches(s[t]) # {}) =>
                /\ pc'[t] = "hit2"
                /\ val'[t] \in LiveMatches(s[t])
                /\ arcs' = IncStrong(val'[t])
                /\ Used' = Used
                /\ STRING_TABLE' = STRING_TABLE]_vars
    /\ [][\A t \in Threads :
            (pc[t] = "hit2" /\ Moves(t)) =>
                /\ pc'[t] = "idle"
                /\ held' = held (+) SetToBag({Handle(val[t], seq[t], arg[t])})
                /\ arcs' = arcs
                /\ STRING_TABLE' = STRING_TABLE]_vars
    /\ [](\A t \in Threads :
            pc[t] = "hit2" =>
                /\ val[t] \in Live \cap STRING_TABLE
                /\ arcs[val[t]].data = s[t])

\* The repeated lookup has hit a buffer that a handle of another call keeps
\* alive.
C15_Witness ==
    \E t \in Threads :
        /\ pc[t] = "hit2"
        /\ t \in writer
        /\ val[t] \in STRING_TABLE
        /\ HeldOnBuf(AllHeld, val[t]) >= 1

\* C16: when the lookup under the read guard finds a live entry of the
\* content, the call takes exactly one strong reference to that buffer and
\* returns a handle on it, releasing the read guard; it never holds the
\* write guard, allocates nothing, and leaves the table and every other
\* count unchanged.
C16_ReadPathFirst ==
    /\ [][\A t \in Threads :
            (pc[t] = "get" /\ Moves(t) /\ LiveMatches(s[t]) # {}) =>
                /\ pc'[t] = "hit"
                /\ val'[t] \in LiveMatches(s[t])
                /\ arcs' = IncStrong(val'[t])
                /\ Used' = Used
                /\ STRING_TABLE' = STRING_TABLE
                /\ writer' = writer]_vars
    /\ [][\A t \in Threads :
            (pc[t] = "hit" /\ Moves(t)) =>
                /\ pc'[t] = "idle"
                /\ held' = held (+) SetToBag({Handle(val[t], seq[t], arg[t])})
                /\ arcs' = arcs
                /\ STRING_TABLE' = STRING_TABLE
                /\ readers' = readers \ {t}
                /\ writer' = writer]_vars
    /\ [](\A t \in Threads : pc[t] \in {"get", "hit"} => t \notin writer)

\* The lookup under the read guard has hit a buffer that a handle keeps alive.
C16_Witness ==
    \E t \in Threads :
        /\ pc[t] = "hit"
        /\ t \in readers
        /\ writer = {}
        /\ arcs[val[t]].strong >= 2
        /\ HeldOnBuf(AllHeld, val[t]) >= 1

\* C17: a clone adds one to the count of exactly the buffer of the cloned
\* handle and a drop subtracts one from the count of exactly the buffer of
\* the dropped handle; neither takes nor waits for the lock (both can be
\* taken whoever holds it), and neither inserts nor removes an entry: a drop
\* to zero leaves the entry in the table, expired.
C17_CloneDropLockFree ==
    /\ [][(pc' = pc /\ held' # held) =>
            /\ UNCHANGED <<STRING_TABLE, readers, writer, poisoned>>
            /\ \E h \in AllHeld :
                 /\ \A b \in Bufs \ {h.buf} : arcs'[b] = arcs[b]
                 /\ arcs'[h.buf].weak = arcs[h.buf].weak
                 /\ \/ /\ held' = held (+) SetToBag({h})
                       /\ arcs'[h.buf].strong = arcs[h.buf].strong + 1
                    \/ /\ held' = held (-) SetToBag({h})
                       /\ arcs'[h.buf].strong = arcs[h.buf].strong - 1]_vars
    /\ [](\A t \in Threads :
            (pc[t] = "idle" /\ held # EmptyBag) =>
                /\ ENABLED Drop(t)
                /\ Room => ENABLED Clone(t))

\* While a thread holds the write guard, the table keeps the expired entry
\* of a buffer whose last handle an idle thread has dropped.
C17_Witness ==
    /\ writer # {}
    /\ Expired # {}
    /\ \E t \in Threads : pc[t] = "idle"

\* The positions of from() at which the thread holds the read guard.
ReadHeld == {"get", "hit", "drop_read"}

\* The positions of from() at which the thread holds the write guard.
WriteHeld == {"recheck", "hit2", "into", "clone", "insert", "fresh"}

\* C18: from() releases the lock on every return path: a thread holds a
\* read guard only between lines 76 and 80 and the write guard only between
\* lines 81 and 89, so a thread that has returned holds neither, and when
\* no call is in progress nobody holds the lock.
C18_LocksReleasedOnReturn ==
    /\ \A t \in Threads :
         /\ t \in readers <=> pc[t] \in ReadHeld
         /\ t \in writer <=> pc[t] \in WriteHeld
    /\ InCall = {} => (readers = {} /\ writer = {})

\* Calls have returned on the hit path and on a write path (two buffers, one
\* of them shared by two handles), no call is in progress and the lock is free.
C18_Witness ==
    /\ InCall = {}
    /\ readers = {}
    /\ writer = {}
    /\ Cardinality(Live) = 2
    /\ \E h \in AllHeld : use_count(h) = 2

\* C19: whenever no thread holds the write guard, every live buffer has its
\* own weak entry in the table, and it is the only live entry of its content.
C19_Registration ==
    writer = {} =>
        \A b \in Live :
            /\ b \in STRING_TABLE
            /\ arcs[b].weak = 1
            /\ LiveMatches(arcs[b].data) = {b}

\* A live buffer is registered while a reader holds the lock and the write
\* guard is free.
C19_Witness ==
    /\ writer = {}
    /\ readers # {}
    /\ Live # {}
    /\ \A b \in Live : b \in STRING_TABLE /\ arcs[b].weak = 1

\* C20: the temporary strong reference handed to insert() is gone before the
\* write guard is released: it exists during the insert (count two), and
\* from the end of the insert to the release of the guard the new buffer
\* has a count of exactly one, the handle being returned, while the table
\* holds one weak reference to it.
C20_NoLeakOfTemporary ==
    \A t \in Threads :
        /\ pc[t] = "insert" => arcs[val[t]].strong = 2
        /\ pc[t] = "fresh" =>
              /\ t \in writer
              /\ val[t] \in STRING_TABLE
              /\ arcs[val[t]].strong = 1
              /\ arcs[val[t]].weak = 1
              /\ HeldOnBuf(AllHeld, val[t]) = 0

\* The insert is done and the write guard not yet released, while the other
\* buffer is alive.
C20_Witness ==
    \E t \in Threads :
        /\ pc[t] = "fresh"
        /\ arcs[val[t]].strong = 1
        /\ Cardinality(Live) = 2

====
